---- MODULE Spec2Model ----
(***************************************************************************)
(* A model of todo_cli.py: a command-line todo list kept in a markdown     *)
(* file (TODO_FILE) with an append-only archive (ARCHIVE_FILE).            *)
(*                                                                         *)
(* A file is a record [exists, lines]; a line is a sequence of one-        *)
(* character strings ending in "\n", exactly the characters f.write puts   *)
(* there, so that the regular expression of load_todos is applied to what  *)
(* save_todos really wrote.  A todo is the dict of the source:             *)
(* [checked, timestamp, text], timestamp and text being character          *)
(* sequences.                                                              *)
(***************************************************************************)
EXTENDS Integers, Sequences, FiniteSets, TLC

VARIABLES
    todo_file,      \* TODO_FILE on disk
    archive_file,   \* ARCHIVE_FILE on disk
    last,           \* what the last command was given, printed and exited with
    pair,           \* history: a check immediately followed by uncheck 1
    added,          \* history: the adds made since the empty store
    proc,           \* the invocations in flight (split commands only)
    codec           \* the line codec exercised on its own

vars == <<todo_file, archive_file, last, pair, added, proc, codec>>

(***************************************************************************)
(* Bounds of the model.                                                    *)
(***************************************************************************)
MaxTasks == 2       \* add is not taken once this many todos are stored
MaxArchive == 2     \* archive is not taken beyond this many archived lines

\* What add is run with: the note, and the day of January 2024 the clock
\* shows (1 January 2024 is a Monday: day 2 is in the week of the 1st, day 8
\* starts the next week).  Two notes share a day, one note comes on two
\* days, and one note is empty.
AddInputs ==
    { << <<"a">>, 2 >>, << <<"b">>, 2 >>, << <<"b">>, 8 >>, << <<>>, 8 >> }

\* The indices check, rm and uncheck are run with, for a target list of n
\* todos: 0, every valid index, and the first index past the end.
Indices(n) == 0 .. (n + 1)

(***************************************************************************)
(* Characters and strings.                                                 *)
(***************************************************************************)
\* The characters of the model in code-point order (str comparison).
CodeOrder == << "\n", " ", "-", "0", "1", "2", "3", "4", "5", "6", "7", "8",
                "9", "[", "]", "a", "b", "x" >>

Code(c) == CHOOSE i \in 1 .. Len(CodeOrder) : CodeOrder[i] = c

DigitChars == << "0", "1", "2", "3", "4", "5", "6", "7", "8", "9" >>

IsDigit(c) == \E i \in 1 .. 10 : DigitChars[i] = c

DigitValue(c) == (CHOOSE i \in 1 .. 10 : DigitChars[i] = c) - 1

\* str.__lt__: lexicographic on code points.
RECURSIVE StrLess(_, _)
StrLess(a, b) ==
    IF b = <<>> THEN FALSE
    ELSE IF a = <<>> THEN TRUE
    ELSE IF a[1] = b[1] THEN StrLess(Tail(a), Tail(b))
    ELSE Code(a[1]) < Code(b[1])

\* str.rstrip(): trailing whitespace removed.
Whitespace == { " ", "\n", "\t", "\r" }

RECURSIVE rstrip(_)
rstrip(s) ==
    IF s = <<>> THEN s
    ELSE IF s[Len(s)] \in Whitespace THEN rstrip(SubSeq(s, 1, Len(s) - 1))
    ELSE s

\* datetime.strftime("%Y-%m-%d") of day d of January 2024.
strftime(d) ==
    << "2", "0", "2", "4", "-", "0", "1", "-",
       DigitChars[(d \div 10) + 1], DigitChars[(d % 10) + 1] >>

\* datetime.strptime(s, "%Y-%m-%d"), as the day of January 2024.
strptime(s) == 10 * DigitValue(s[9]) + DigitValue(s[10])

(***************************************************************************)
(* The line codec and the store.                                           *)
(***************************************************************************)
\* \d{4}-\d{2}-\d{2} at positions p .. p+9 of s.
DateAt(s, p) ==
    /\ \A k \in {0, 1, 2, 3, 5, 6, 8, 9} : IsDigit(s[p + k])
    /\ s[p + 4] = "-"
    /\ s[p + 7] = "-"

\* re.match(r"^- \[([ x])\] (\d{4}-\d{2}-\d{2}) (.+)$", s)
TodoMatch(s) ==
    /\ Len(s) >= 18
    /\ s[1] = "-" /\ s[2] = " " /\ s[3] = "["
    /\ s[4] \in {" ", "x"}
    /\ s[5] = "]" /\ s[6] = " "
    /\ DateAt(s, 7)
    /\ s[17] = " "
    /\ \A k \in 18 .. Len(s) : s[k] # "\n"

\* The groups of the match, as the dict load_todos appends.
TodoOfMatch(s) ==
    [ checked |-> (s[4] = "x"),
      timestamp |-> SubSeq(s, 7, 16),
      text |-> SubSeq(s, 18, Len(s)) ]

\* The loop body of load_todos on the lines of an existing file.
ParseLines(lines) ==
    LET stripped == [i \in 1 .. Len(lines) |-> rstrip(lines[i])]
        matching == SelectSeq(stripped, TodoMatch)
    IN  [i \in 1 .. Len(matching) |-> TodoOfMatch(matching[i])]

load_todos(f) == IF ~f.exists THEN <<>> ELSE ParseLines(f.lines)

\* f"- [{checkbox}] {todo['timestamp']} {todo['text']}\n"
FormatLine(todo) ==
    << "-", " ", "[", (IF todo.checked THEN "x" ELSE " "), "]", " " >>
        \o todo.timestamp \o << " " >> \o todo.text \o << "\n" >>

Unchecked(todos) == SelectSeq(todos, LAMBDA t : ~t.checked)

Checked(todos) == SelectSeq(todos, LAMBDA t : t.checked)

\* sorted(..., key=lambda t: t["timestamp"]): stable, ascending.
RECURSIVE sorted(_)
sorted(s) ==
    IF s = <<>> THEN <<>>
    ELSE LET init == sorted(SubSeq(s, 1, Len(s) - 1))
             x == s[Len(s)]
             k == Cardinality({i \in 1 .. Len(init) :
                                 ~StrLess(x.timestamp, init[i].timestamp)})
         IN  SubSeq(init, 1, k) \o << x >> \o SubSeq(init, k + 1, Len(init))

\* The content TODO_FILE has after save_todos(todos).
save_todos(todos) ==
    LET unchecked == sorted(Unchecked(todos))
        checked == Checked(todos)
        out == unchecked \o checked
    IN  [ exists |-> TRUE,
          lines |-> [i \in 1 .. Len(out) |-> FormatLine(out[i])] ]

\* list.pop(index - 1) for 1 <= index <= len: the list left behind.
Pop(s, index) == SubSeq(s, 1, index - 1) \o SubSeq(s, index + 1, Len(s))

(***************************************************************************)
(* What a command leaves behind for the observer: its name and argument,   *)
(* the kind of message it printed, the N of "Must be between 1 and N",     *)
(* the exit status, and for list the lines printed.                        *)
(***************************************************************************)
Outcome(cmd, index, out, n, status, printed) ==
    [ cmd |-> cmd, flags |-> {}, index |-> index, out |-> out, n |-> n,
      status |-> status, printed |-> printed ]

\* One print call of list_todos: which print it is, the number and the
\* label, date and text that it shows.
Printed(kind, idx, label, date, text) ==
    [ kind |-> kind, idx |-> idx, label |-> label, date |-> date, text |-> text ]

NoPair == [ stage |-> "none", before |-> <<>>, index |-> 0 ]

NoAdds == [ live |-> FALSE, notes |-> <<>> ]

Procs == {1, 2}

\* An invocation that is not running.
IdleProc ==
    [ pc |-> "idle", cmd |-> "none", item |-> <<>>, seen |-> <<>>,
      todos |-> <<>>, wrote |-> FALSE ]

NoProcs == [ p \in Procs |-> IdleProc ]

NoCodec == [ stage |-> "idle", todo |-> <<>>, line |-> <<>>, parsed |-> <<>> ]

(***************************************************************************)
(* Commands, each one whole invocation of the program.  The lists a        *)
(* command loads are bound once, by \E over a singleton.                   *)
(***************************************************************************)
add_todo(note, day) ==
    \E todos \in { load_todos(todo_file) } :
    LET timestamp == strftime(day)
        new == Append(todos, [checked |-> FALSE, timestamp |-> timestamp,
                              text |-> note])
    IN  /\ Len(todos) < MaxTasks
        /\ added.live => Len(added.notes) < MaxTasks
        /\ todo_file' = save_todos(new)
        /\ last' = Outcome("add", 0, "Added", 0, 0, <<>>)
        /\ pair' = NoPair
        /\ added' = IF added.live
                    THEN [added EXCEPT !.notes =
                            Append(@, [timestamp |-> timestamp, text |-> note])]
                    ELSE added
        /\ UNCHANGED archive_file

\* check_todo with checked.append(item) for checked.insert(0, item).
check_todo_append(index) ==
    \E todos \in { load_todos(todo_file) } :
    \E unchecked \in { Unchecked(todos) }, checked \in { Checked(todos) } :
        /\ pair' = IF unchecked # <<>> /\ index >= 1 /\ index <= Len(unchecked)
                   THEN [ stage |-> "checked", before |-> todos, index |-> index ]
                   ELSE NoPair
        /\ added' = NoAdds
        /\ UNCHANGED archive_file
        /\ IF unchecked = <<>>
           THEN /\ last' = Outcome("check", index, "NoItems", 0, 1, <<>>)
                /\ UNCHANGED todo_file
           ELSE IF index < 1 \/ index > Len(unchecked)
           THEN /\ last' = Outcome("check", index, "IndexOutOfRange",
                                   Len(unchecked), 1, <<>>)
                /\ UNCHANGED todo_file
           ELSE LET item == [unchecked[index] EXCEPT !.checked = TRUE]
                IN  /\ todo_file' = save_todos(Pop(unchecked, index)
                                                 \o Append(checked, item))
                    /\ last' = Outcome("check", index, "Checked", 0, 0, <<>>)

check_todo(index) ==
    \E todos \in { load_todos(todo_file) } :
    \E unchecked \in { Unchecked(todos) }, checked \in { Checked(todos) } :
        /\ pair' = IF unchecked # <<>> /\ index >= 1 /\ index <= Len(unchecked)
                   THEN [ stage |-> "checked", before |-> todos, index |-> index ]
                   ELSE NoPair
        /\ added' = NoAdds
        /\ UNCHANGED archive_file
        /\ IF unchecked = <<>>
           THEN /\ last' = Outcome("check", index, "NoItems", 0, 1, <<>>)
                /\ UNCHANGED todo_file
           ELSE IF index < 1 \/ index > Len(unchecked)
           THEN /\ last' = Outcome("check", index, "IndexOutOfRange",
                                   Len(unchecked), 1, <<>>)
                /\ UNCHANGED todo_file
           ELSE LET item == [unchecked[index] EXCEPT !.checked = TRUE]
                IN  /\ todo_file' = save_todos(Pop(unchecked, index)
                                                 \o (<< item >> \o checked))
                    /\ last' = Outcome("check", index, "Checked", 0, 0, <<>>)

\* rm_todo with "index < 0" for "index < 1": pop(-1) takes the last todo.
rm_todo_lax(index) ==
    \E todos \in { load_todos(todo_file) } :
    \E unchecked \in { Unchecked(todos) }, checked \in { Checked(todos) } :
        /\ pair' = NoPair
        /\ added' = NoAdds
        /\ UNCHANGED archive_file
        /\ IF unchecked = <<>>
           THEN /\ last' = Outcome("rm", index, "NoItems", 0, 1, <<>>)
                /\ UNCHANGED todo_file
           ELSE IF index < 0 \/ index > Len(unchecked)
           THEN /\ last' = Outcome("rm", index, "IndexOutOfRange",
                                   Len(unchecked), 1, <<>>)
                /\ UNCHANGED todo_file
           ELSE /\ todo_file' = save_todos(
                      Pop(unchecked, IF index = 0 THEN Len(unchecked) ELSE index)
                        \o checked)
                /\ last' = Outcome("rm", index, "Removed", 0, 0, <<>>)

rm_todo(index) ==
    \E todos \in { load_todos(todo_file) } :
    \E unchecked \in { Unchecked(todos) }, checked \in { Checked(todos) } :
        /\ pair' = NoPair
        /\ added' = NoAdds
        /\ UNCHANGED archive_file
        /\ IF unchecked = <<>>
           THEN /\ last' = Outcome("rm", index, "NoItems", 0, 1, <<>>)
                /\ UNCHANGED todo_file
           ELSE IF index < 1 \/ index > Len(unchecked)
           THEN /\ last' = Outcome("rm", index, "IndexOutOfRange",
                                   Len(unchecked), 1, <<>>)
                /\ UNCHANGED todo_file
           ELSE /\ todo_file' = save_todos(Pop(unchecked, index) \o checked)
                /\ last' = Outcome("rm", index, "Removed", 0, 0, <<>>)

\* uncheck_todo with unchecked.insert(0, item) for unchecked.append(item).
uncheck_todo_front(index) ==
    \E todos \in { load_todos(todo_file) } :
    \E unchecked \in { Unchecked(todos) }, checked \in { Checked(todos) } :
    LET ok == checked # <<>> /\ index >= 1 /\ index <= Len(checked)
    IN  /\ pair' = IF ok /\ index = 1 /\ pair.stage = "checked"
                   THEN [pair EXCEPT !.stage = "restored"]
                   ELSE NoPair
        /\ added' = NoAdds
        /\ UNCHANGED archive_file
        /\ IF checked = <<>>
           THEN /\ last' = Outcome("uncheck", index, "NoItems", 0, 1, <<>>)
                /\ UNCHANGED todo_file
           ELSE IF index < 1 \/ index > Len(checked)
           THEN /\ last' = Outcome("uncheck", index, "IndexOutOfRange",
                                   Len(checked), 1, <<>>)
                /\ UNCHANGED todo_file
           ELSE LET item == [checked[index] EXCEPT !.checked = FALSE]
                IN  /\ todo_file' = save_todos((<< item >> \o unchecked)
                                                 \o Pop(checked, index))
                    /\ last' = Outcome("uncheck", index, "Unchecked", 0, 0, <<>>)

\* uncheck_todo with the store saved before the index is looked at.
uncheck_todo_resave(index) ==
    \E todos \in { load_todos(todo_file) } :
    \E unchecked \in { Unchecked(todos) }, checked \in { Checked(todos) } :
    LET ok == checked # <<>> /\ index >= 1 /\ index <= Len(checked)
    IN  /\ pair' = IF ok /\ index = 1 /\ pair.stage = "checked"
                   THEN [pair EXCEPT !.stage = "restored"]
                   ELSE NoPair
        /\ added' = NoAdds
        /\ UNCHANGED archive_file
        /\ IF checked = <<>>
           THEN /\ last' = Outcome("uncheck", index, "NoItems", 0, 1, <<>>)
                /\ UNCHANGED todo_file
           ELSE IF index < 1 \/ index > Len(checked)
           THEN /\ last' = Outcome("uncheck", index, "IndexOutOfRange",
                                   Len(checked), 1, <<>>)
                /\ todo_file' = save_todos(unchecked \o checked)
           ELSE LET item == [checked[index] EXCEPT !.checked = FALSE]
                IN  /\ todo_file' = save_todos(Append(unchecked, item)
                                                 \o Pop(checked, index))
                    /\ last' = Outcome("uncheck", index, "Unchecked", 0, 0, <<>>)

uncheck_todo(index) ==
    \E todos \in { load_todos(todo_file) } :
    \E unchecked \in { Unchecked(todos) }, checked \in { Checked(todos) } :
    LET ok == checked # <<>> /\ index >= 1 /\ index <= Len(checked)
    IN  /\ pair' = IF ok /\ index = 1 /\ pair.stage = "checked"
                   THEN [pair EXCEPT !.stage = "restored"]
                   ELSE NoPair
        /\ added' = NoAdds
        /\ UNCHANGED archive_file
        /\ IF checked = <<>>
           THEN /\ last' = Outcome("uncheck", index, "NoItems", 0, 1, <<>>)
                /\ UNCHANGED todo_file
           ELSE IF index < 1 \/ index > Len(checked)
           THEN /\ last' = Outcome("uncheck", index, "IndexOutOfRange",
                                   Len(checked), 1, <<>>)
                /\ UNCHANGED todo_file
           ELSE LET item == [checked[index] EXCEPT !.checked = FALSE]
                IN  /\ todo_file' = save_todos(Append(unchecked, item)
                                                 \o Pop(checked, index))
                    /\ last' = Outcome("uncheck", index, "Unchecked", 0, 0, <<>>)

\* The lines archive_todos writes for the checked todos.
ArchiveLines(checked) ==
    [i \in 1 .. Len(checked) |->
        << "-", " ", "[", "x", "]", " " >> \o checked[i].timestamp
            \o << " " >> \o checked[i].text \o << "\n" >>]

\* append_archive with the file opened "w" for "a".
append_archive_truncate(f, checked) ==
    [ exists |-> TRUE, lines |-> ArchiveLines(checked) ]

\* open(ARCHIVE_FILE, "a") and the writes: the content afterwards.
append_archive(f, checked) ==
    [ exists |-> TRUE, lines |-> f.lines \o ArchiveLines(checked) ]

archive_todos ==
    \E todos \in { load_todos(todo_file) } :
    \E unchecked \in { Unchecked(todos) }, checked \in { Checked(todos) } :
        /\ pair' = NoPair
        /\ added' = NoAdds
        /\ IF checked = <<>>
           THEN /\ last' = Outcome("archive", 0, "NoCompleted", 0, 0, <<>>)
                /\ UNCHANGED <<todo_file, archive_file>>
           ELSE /\ Len(archive_file.lines) + Len(checked) <= MaxArchive
                /\ archive_file' = append_archive(archive_file, checked)
                /\ todo_file' = save_todos(unchecked)
                /\ last' = Outcome("archive", 0, "Archived", Len(checked), 0, <<>>)

(***************************************************************************)
(* Listing.                                                                *)
(***************************************************************************)
\* date.weekday() of a day of January 2024: Monday is 0.
weekday(d) == (d - 1) % 7

get_week_start(date_str) ==
    LET date == strptime(date_str)
        monday == date - weekday(date)
    IN  strftime(monday)

Range(s) == { s[i] : i \in 1 .. Len(s) }

group_by_date(todos) ==
    [ key \in { t.timestamp : t \in Range(todos) } |->
        SelectSeq(todos, LAMBDA t : t.timestamp = key) ]

group_by_week(todos) ==
    [ key \in { get_week_start(t.timestamp) : t \in Range(todos) } |->
        SelectSeq(todos, LAMBDA t : get_week_start(t.timestamp) = key) ]

\* sorted(keys, reverse=True)
RECURSIVE sorted_reverse(_)
sorted_reverse(keys) ==
    IF keys = {} THEN <<>>
    ELSE LET top == CHOOSE k \in keys : \A other \in keys : ~StrLess(k, other)
         IN  << top >> \o sorted_reverse(keys \ {top})

\* The loop over the unchecked groups: idx runs on from group to group.
RECURSIVE PrintUncheckedGroups(_, _, _, _)
PrintUncheckedGroups(keys, groups, label, idx) ==
    IF keys = <<>> THEN <<>>
    ELSE LET group == groups[Head(keys)]
         IN  << Printed("group", 0, label, Head(keys), <<>>) >>
             \o [ i \in 1 .. Len(group) |->
                    Printed("group_item", idx + i - 1, "", <<>>, group[i].text) ]
             \o << Printed("blank", 0, "", <<>>, <<>>) >>
             \o PrintUncheckedGroups(Tail(keys), groups, label, idx + Len(group))

\* The loop over the checked groups, under "Completed".
RECURSIVE PrintCheckedGroups(_, _, _)
PrintCheckedGroups(keys, groups, label) ==
    IF keys = <<>> THEN <<>>
    ELSE LET group == groups[Head(keys)]
         IN  << Printed("done_group", 0, label, Head(keys), <<>>) >>
             \o [ i \in 1 .. Len(group) |->
                    Printed("done_item", 0, "", <<>>, group[i].text) ]
             \o PrintCheckedGroups(Tail(keys), groups, label)

\* re.match(r"^- \[x\] (\d{4}-\d{2}-\d{2}) (.+)$", s)
ArchiveMatch(s) ==
    /\ Len(s) >= 18
    /\ s[1] = "-" /\ s[2] = " " /\ s[3] = "[" /\ s[4] = "x"
    /\ s[5] = "]" /\ s[6] = " "
    /\ DateAt(s, 7)
    /\ s[17] = " "
    /\ \A k \in 18 .. Len(s) : s[k] # "\n"

load_archive(f) ==
    IF ~f.exists THEN <<>>
    ELSE LET stripped == [i \in 1 .. Len(f.lines) |-> rstrip(f.lines[i])]
             matching == SelectSeq(stripped, ArchiveMatch)
         IN  [ i \in 1 .. Len(matching) |->
                 [ checked |-> TRUE,
                   timestamp |-> SubSeq(matching[i], 7, 16),
                   text |-> SubSeq(matching[i], 18, Len(matching[i])) ] ]

\* Everything list_todos prints.
ListOutput(daily, weekly, show_archive) ==
    LET archived == load_archive(archive_file)
        todos == load_todos(todo_file)
        unchecked == Unchecked(todos)
        checked == Checked(todos)
        label == IF weekly THEN "Week of " ELSE ""
        unchecked_groups == IF weekly THEN group_by_week(unchecked)
                            ELSE group_by_date(unchecked)
        checked_groups == IF weekly THEN group_by_week(checked)
                          ELSE group_by_date(checked)
    IN  IF show_archive
        THEN IF archived = <<>>
             THEN << Printed("no_archived", 0, "", <<>>, <<>>) >>
             ELSE [ i \in 1 .. Len(archived) |->
                      Printed("archived_item", 0, "", archived[i].timestamp,
                              archived[i].text) ]
        ELSE IF todos = <<>>
        THEN << Printed("no_todo", 0, "", <<>>, <<>>) >>
        ELSE IF daily \/ weekly
        THEN PrintUncheckedGroups(sorted_reverse(DOMAIN unchecked_groups),
                                  unchecked_groups, label, 1)
             \o (IF checked # <<>>
                 THEN << Printed("completed", 0, "", <<>>, <<>>) >>
                      \o PrintCheckedGroups(sorted_reverse(DOMAIN checked_groups),
                                            checked_groups, label)
                      \o << Printed("blank", 0, "", <<>>, <<>>) >>
                 ELSE <<>>)
        ELSE [ i \in 1 .. Len(unchecked) |->
                 Printed("flat_item", i, "", unchecked[i].timestamp,
                         unchecked[i].text) ]
             \o (IF unchecked # <<>> /\ checked # <<>>
                 THEN << Printed("blank", 0, "", <<>>, <<>>) >> ELSE <<>>)
             \o [ i \in 1 .. Len(checked) |->
                    Printed("flat_done", 0, "", checked[i].timestamp,
                            checked[i].text) ]

list_todos(daily, weekly, show_archive) ==
    /\ last' = [ Outcome("list", 0, "Listed", 0, 0,
                         ListOutput(daily, weekly, show_archive))
                 EXCEPT !.flags = (IF daily THEN {"daily"} ELSE {})
                                  \cup (IF weekly THEN {"weekly"} ELSE {})
                                  \cup (IF show_archive THEN {"archive"} ELSE {}) ]
    /\ UNCHANGED <<todo_file, archive_file, pair, added>>

Init ==
    /\ todo_file = [ exists |-> FALSE, lines |-> <<>> ]
    /\ archive_file = [ exists |-> FALSE, lines |-> <<>> ]
    /\ last = Outcome("none", 0, "none", 0, 0, <<>>)
    /\ pair = NoPair
    /\ added = [ live |-> TRUE, notes |-> <<>> ]
    /\ proc = NoProcs
    /\ codec = NoCodec

Commands ==
    \/ \E in \in AddInputs : add_todo(in[1], in[2]) /\ UNCHANGED <<proc, codec>>
    \/ \E index \in Indices(Len(Unchecked(load_todos(todo_file)))) :
          check_todo(index) /\ UNCHANGED <<proc, codec>>
    \/ \E index \in Indices(Len(Unchecked(load_todos(todo_file)))) :
          rm_todo(index) /\ UNCHANGED <<proc, codec>>
    \/ \E index \in Indices(Len(Checked(load_todos(todo_file)))) :
          uncheck_todo(index) /\ UNCHANGED <<proc, codec>>

Next ==
    \/ Commands
    \/ archive_todos /\ UNCHANGED <<proc, codec>>

Spec == Init /\ [][Next]_vars

\* The commands together with the listings.
NextList ==
    \/ Next
    \/ \E daily \in BOOLEAN, weekly \in BOOLEAN, show_archive \in BOOLEAN :
          list_todos(daily, weekly, show_archive) /\ UNCHANGED <<proc, codec>>

SpecList == Init /\ [][NextList]_vars

(***************************************************************************)
(* The line codec on its own: a todo is written as save_todos writes it    *)
(* and the line is read back as load_todos reads it.                       *)
(***************************************************************************)
MaxText == 3        \* the longest text the codec is given

TextChars == { "a", " " }

RECURSIVE TextsUpTo(_)
TextsUpTo(n) ==
    IF n = 0 THEN { <<>> }
    ELSE LET shorter == TextsUpTo(n - 1)
         IN  shorter \cup { Append(t, c) : t \in shorter, c \in TextChars }

CodecTodos ==
    { [ checked |-> c, timestamp |-> strftime(d), text |-> t ] :
        c \in BOOLEAN, d \in {2, 8}, t \in TextsUpTo(MaxText) }

InitCodec ==
    /\ todo_file = [ exists |-> FALSE, lines |-> <<>> ]
    /\ archive_file = [ exists |-> FALSE, lines |-> <<>> ]
    /\ last = Outcome("none", 0, "none", 0, 0, <<>>)
    /\ pair = NoPair
    /\ added = [ live |-> TRUE, notes |-> <<>> ]
    /\ proc = NoProcs
    /\ \E todo \in CodecTodos : codec = [ NoCodec EXCEPT !.stage = "todo",
                                                         !.todo = todo ]

write_line ==
    /\ codec.stage = "todo"
    /\ codec' = [ codec EXCEPT !.stage = "written",
                               !.line = FormatLine(codec.todo) ]
    /\ UNCHANGED <<todo_file, archive_file, last, pair, added, proc>>

read_line ==
    /\ codec.stage = "written"
    /\ codec' = [ codec EXCEPT !.stage = "read",
                               !.parsed = ParseLines(<< codec.line >>) ]
    /\ UNCHANGED <<todo_file, archive_file, last, pair, added, proc>>

NextCodec == write_line \/ read_line

SpecCodec == InitCodec /\ [][NextCodec]_vars

(***************************************************************************)
(* archive_todos in its two writes, with the process able to die between   *)
(* them.  The other commands run whole, between archive invocations.       *)
(***************************************************************************)
\* archive_append with save_todos(unchecked) moved before the append.
archive_append_save_first ==
    \E todos \in { load_todos(todo_file) } :
    \E unchecked \in { Unchecked(todos) }, checked \in { Checked(todos) } :
        /\ proc[1].pc = "idle"
        /\ pair' = NoPair
        /\ added' = NoAdds
        /\ UNCHANGED codec
        /\ IF checked = <<>>
           THEN /\ last' = Outcome("archive", 0, "NoCompleted", 0, 0, <<>>)
                /\ UNCHANGED <<todo_file, archive_file, proc>>
           ELSE /\ Len(archive_file.lines) + Len(checked) <= MaxArchive
                /\ todo_file' = save_todos(unchecked)
                /\ archive_file' = append_archive(archive_file, checked)
                /\ last' = Outcome("archive", 0, "Appending", Len(checked), 0, <<>>)
                /\ proc' = [ proc EXCEPT ![1] =
                               [ IdleProc EXCEPT !.pc = "appended",
                                                 !.cmd = "archive",
                                                 !.seen = todos,
                                                 !.todos = unchecked ] ]

\* archive_todos up to the end of the with block: load, and the append.
archive_append ==
    \E todos \in { load_todos(todo_file) } :
    \E unchecked \in { Unchecked(todos) }, checked \in { Checked(todos) } :
        /\ proc[1].pc = "idle"
        /\ pair' = NoPair
        /\ added' = NoAdds
        /\ UNCHANGED <<todo_file, codec>>
        /\ IF checked = <<>>
           THEN /\ last' = Outcome("archive", 0, "NoCompleted", 0, 0, <<>>)
                /\ UNCHANGED <<archive_file, proc>>
           ELSE /\ Len(archive_file.lines) + Len(checked) <= MaxArchive
                /\ archive_file' = append_archive(archive_file, checked)
                /\ last' = Outcome("archive", 0, "Appending", Len(checked), 0, <<>>)
                /\ proc' = [ proc EXCEPT ![1] =
                               [ IdleProc EXCEPT !.pc = "appended",
                                                 !.cmd = "archive",
                                                 !.seen = todos,
                                                 !.todos = unchecked ] ]

\* archive_todos from save_todos(unchecked) on.
archive_save ==
    /\ proc[1].pc = "appended"
    /\ todo_file' = save_todos(proc[1].todos)
    /\ last' = Outcome("archive", 0, "Archived", last.n, 0, <<>>)
    /\ proc' = NoProcs
    /\ UNCHANGED <<archive_file, pair, added, codec>>

\* The process dies after the append and before save_todos.
archive_killed ==
    /\ proc[1].pc = "appended"
    /\ last' = Outcome("archive", 0, "Killed", last.n, 1, <<>>)
    /\ proc' = NoProcs
    /\ UNCHANGED <<todo_file, archive_file, pair, added, codec>>

NextCrash ==
    \/ proc[1].pc = "idle" /\ Commands
    \/ archive_append
    \/ archive_save
    \/ archive_killed

SpecCrash == Init /\ [][NextCrash]_vars

(***************************************************************************)
(* Two invocations at once.  Each is one command, in two steps: the load   *)
(* with the change made in memory, and the save_todos that ends it.        *)
(***************************************************************************)
\* The stores the two invocations find.
ConcStores ==
    LET a2 == [ checked |-> FALSE, timestamp |-> strftime(2), text |-> <<"a">> ]
        b8 == [ checked |-> FALSE, timestamp |-> strftime(8), text |-> <<"b">> ]
    IN  { <<>>, << a2 >>, << a2, b8 >> }

ConcNotes == { <<"a">>, <<"b">> }

InitConc ==
    /\ \E todos \in ConcStores :
          todo_file = IF todos = <<>> THEN [ exists |-> FALSE, lines |-> <<>> ]
                      ELSE save_todos(todos)
    /\ archive_file = [ exists |-> FALSE, lines |-> <<>> ]
    /\ last = Outcome("none", 0, "none", 0, 0, <<>>)
    /\ pair = NoPair
    /\ added = NoAdds
    /\ proc = NoProcs
    /\ codec = NoCodec

\* add_todo up to todos.append.
add_load(p, note, day) ==
    LET todos == load_todos(todo_file)
        item == [ checked |-> FALSE, timestamp |-> strftime(day), text |-> note ]
    IN  /\ proc[p].pc = "idle"
        /\ proc' = [ proc EXCEPT ![p] =
                       [ pc |-> "loaded", cmd |-> "add", item |-> item,
                         seen |-> todos, todos |-> Append(todos, item),
                         wrote |-> FALSE ] ]
        /\ UNCHANGED <<todo_file, archive_file, last, pair, added, codec>>

\* check_todo up to checked.insert.
check_load(p, index) ==
    \E todos \in { load_todos(todo_file) } :
    \E unchecked \in { Unchecked(todos) }, checked \in { Checked(todos) } :
        /\ proc[p].pc = "idle"
        /\ UNCHANGED <<todo_file, archive_file, last, pair, added, codec>>
        /\ IF unchecked = <<>> \/ index < 1 \/ index > Len(unchecked)
           THEN proc' = [ proc EXCEPT ![p] =
                            [ IdleProc EXCEPT !.pc = "failed", !.cmd = "check",
                                              !.seen = todos ] ]
           ELSE LET item == [unchecked[index] EXCEPT !.checked = TRUE]
                IN  proc' = [ proc EXCEPT ![p] =
                                [ pc |-> "loaded", cmd |-> "check",
                                  item |-> item, seen |-> todos,
                                  todos |-> Pop(unchecked, index)
                                              \o (<< item >> \o checked),
                                  wrote |-> FALSE ] ]

\* save_step with the store loaded again and the change made on that.
save_step_reload(p) ==
    /\ proc[p].pc = "loaded"
    /\ todo_file' = IF proc[p].cmd = "add"
                    THEN save_todos(Append(load_todos(todo_file), proc[p].item))
                    ELSE save_todos(proc[p].todos)
    /\ proc' = [ proc EXCEPT ![p].pc = "done", ![p].wrote = TRUE ]
    /\ UNCHANGED <<archive_file, last, pair, added, codec>>

\* The save_todos call that ends add_todo and check_todo.
save_step(p) ==
    /\ proc[p].pc = "loaded"
    /\ todo_file' = save_todos(proc[p].todos)
    /\ proc' = [ proc EXCEPT ![p].pc = "done", ![p].wrote = TRUE ]
    /\ UNCHANGED <<archive_file, last, pair, added, codec>>

NextConc ==
    \/ \E p \in Procs, note \in ConcNotes, day \in {2, 8} : add_load(p, note, day)
    \/ \E p \in Procs :
          \E index \in Indices(Len(Unchecked(load_todos(todo_file)))) :
             check_load(p, index)
    \/ \E p \in Procs : save_step(p)

SpecConc == InitConc /\ [][NextConc]_vars

(***************************************************************************)
(* Properties of the commands.                                             *)
(***************************************************************************)
Todos == load_todos(todo_file)

\* a <= b as str
StrLeq(a, b) == ~StrLess(b, a)

\* t is s with one todo put in behind every todo dated like it or earlier
\* and before every todo dated later.
InsertedByDate(s, t) ==
    \E k \in 1 .. Len(t) :
        /\ Pop(t, k) = s
        /\ \A j \in 1 .. (k - 1) : StrLeq(t[j].timestamp, t[k].timestamp)
        /\ \A j \in (k + 1) .. Len(t) : StrLess(t[k].timestamp, t[j].timestamp)

C1_Layout ==
    LET T == Todos
        U == Unchecked(T)
        L == todo_file.lines
    IN  /\ \A i \in 1 .. (Len(T) - 1) : T[i].checked => T[i + 1].checked
        /\ \A i \in 1 .. (Len(L) - 1) : L[i][4] = "x" => L[i + 1][4] = "x"
        /\ \A i \in 1 .. (Len(U) - 1) :
              StrLeq(U[i].timestamp, U[i + 1].timestamp)

C1_Step ==
    \A T \in { Todos }, T2 \in { load_todos(todo_file') } :
    \A U \in { Unchecked(T) }, C \in { Checked(T) },
       U2 \in { Unchecked(T2) }, C2 \in { Checked(T2) } :
        CASE last'.out = "Added" -> (U2 = U \/ InsertedByDate(U, U2)) /\ C2 = C
          [] last'.out = "Checked" ->
                /\ U2 = Pop(U, last'.index)
                /\ C2 = << [U[last'.index] EXCEPT !.checked = TRUE] >> \o C
          [] last'.out = "Removed" -> U2 = Pop(U, last'.index) /\ C2 = C
          [] last'.out = "Unchecked" ->
                /\ C2 = Pop(C, last'.index)
                /\ InsertedByDate(U, U2)
          [] last'.out = "Archived" -> U2 = U /\ C2 = <<>>
          [] OTHER -> todo_file' = todo_file

\* C1: in every reachable store the unchecked todos come first, in ascending
\* timestamp order, and no unchecked line follows a checked one; a command
\* moves an unchecked todo only behind the todos dated like it or earlier
\* (ties keep their order), and the checked block changes only by check
\* putting the todo at its front, uncheck taking one out and archive
\* emptying it, so that it is ordered most recently checked first.
C1_Order == [](C1_Layout) /\ [][C1_Step]_vars

C1_Witness ==
    /\ last.out = "Checked"
    /\ Len(Checked(Todos)) = 2
    /\ Checked(Todos)[1] # Checked(Todos)[2]

\* C2: a check, rm or uncheck that fails (exit status 1) writes nothing:
\* TODO_FILE and ARCHIVE_FILE are what they were, lines that do not match
\* the grammar included.
C2_NoWrite ==
    [][last'.status = 1 =>
          todo_file' = todo_file /\ archive_file' = archive_file]_vars

C2_Witness ==
    /\ last.out = "IndexOutOfRange"
    /\ Len(Todos) < Len(todo_file.lines)

Target(cmd) == IF cmd = "uncheck" THEN Checked(Todos) ELSE Unchecked(Todos)

OutOfRange ==
    /\ last'.cmd \in {"check", "rm", "uncheck"}
    /\ last'.index < 1 \/ last'.index > Len(Target(last'.cmd))

\* C3 as claimed: check, rm or uncheck with index 0 or an index past the end
\* of its target list always fails with IndexOutOfRange.
C3_Original ==
    [][OutOfRange => last'.out = "IndexOutOfRange" /\ last'.status = 1]_vars

\* C3 amended: with a non-empty target list such an index always fails with
\* IndexOutOfRange, naming the length of the list; with an empty target
\* list the command fails with NoItems instead.  Either way it exits 1.
C3_Amended ==
    [][OutOfRange =>
          /\ last'.status = 1
          /\ IF Target(last'.cmd) = <<>>
             THEN last'.out = "NoItems"
             ELSE /\ last'.out = "IndexOutOfRange"
                  /\ last'.n = Len(Target(last'.cmd))]_vars

C3_Witness ==
    /\ last.cmd = "rm"
    /\ last.out = "IndexOutOfRange"
    /\ last.index = 0
    /\ last.n = 2

\* C4 as claimed: after check(i) and then uncheck(1) the todo is the last
\* unchecked todo of the store, the others and the checked list unchanged.
C4_Original ==
    pair.stage = "restored" =>
        LET U0 == Unchecked(pair.before)
        IN  /\ Unchecked(Todos) = Append(Pop(U0, pair.index), U0[pair.index])
            /\ Checked(Todos) = Checked(pair.before)

\* C4 amended: after check(i) and then uncheck(1) the todo is unchecked
\* again with its text and timestamp, stored behind every unchecked todo
\* dated like it or earlier and before every one dated later; the other
\* todos and the checked list are unchanged.
C4_Amended ==
    pair.stage = "restored" =>
        LET U0 == Unchecked(pair.before)
            U == Unchecked(Todos)
        IN  /\ Checked(Todos) = Checked(pair.before)
            /\ \E k \in 1 .. Len(U) :
                  /\ U[k] = U0[pair.index]
                  /\ Pop(U, k) = Pop(U0, pair.index)
                  /\ \A j \in 1 .. (k - 1) :
                        StrLeq(U[j].timestamp, U[k].timestamp)
                  /\ \A j \in (k + 1) .. Len(U) :
                        StrLess(U[k].timestamp, U[j].timestamp)

C4_Witness ==
    /\ pair.stage = "restored"
    /\ last.out = "Unchecked"
    /\ Len(Unchecked(Todos)) = 2
    /\ Unchecked(Todos)[1] = Unchecked(pair.before)[pair.index]

\* C5: after adds alone, from the empty store, the texts a load returns are
\* the texts added, and the unchecked todos are stored in ascending
\* timestamp order.
C5_AddsKept ==
    added.live =>
        /\ { t.text : t \in Range(Todos) }
              = { n.text : n \in Range(added.notes) }
        /\ \A i, j \in 1 .. Len(Todos) :
              i < j => StrLeq(Todos[i].timestamp, Todos[j].timestamp)

\* C7: archive with a checked todo appends the checked todos, in their
\* order, behind the content ARCHIVE_FILE had, and leaves TODO_FILE with
\* exactly the unchecked todos; no other command changes ARCHIVE_FILE.
C7_Archive ==
    [][IF last'.cmd = "archive" /\ Checked(Todos) # <<>>
       THEN /\ last'.out = "Archived"
            /\ Len(archive_file'.lines)
                  = Len(archive_file.lines) + Len(Checked(Todos))
            /\ SubSeq(archive_file'.lines, 1, Len(archive_file.lines))
                  = archive_file.lines
            /\ load_archive(archive_file')
                  = load_archive(archive_file) \o Checked(Todos)
            /\ load_todos(todo_file') = Unchecked(Todos)
            /\ Len(todo_file'.lines) = Len(Unchecked(Todos))
       ELSE archive_file' = archive_file]_vars

C7_Witness ==
    /\ last.out = "Archived"
    /\ last.n = 1
    /\ Len(archive_file.lines) = 2
    /\ Todos # <<>>

\* C8: the number list prints next to an unchecked todo, in the flat, the
\* daily and the weekly listing, is the index by which check and rm select
\* that todo.
C8_Numbers ==
    last.cmd = "list" /\ "archive" \notin last.flags =>
        \A i \in 1 .. Len(last.printed) :
            last.printed[i].idx >= 1 =>
                /\ last.printed[i].idx <= Len(Unchecked(Todos))
                /\ Unchecked(Todos)[last.printed[i].idx].text
                      = last.printed[i].text

(***************************************************************************)
(* Properties of the codec, of archive cut short, and of two invocations.  *)
(***************************************************************************)
\* C6: a todo written as a line and read back is the same todo: same
\* checked flag, timestamp and text, for every text without a newline.
C6_RoundTrip == codec.stage = "read" => codec.parsed = << codec.todo >>

C9_Killed ==
    last.out = "Killed" =>
        LET C == Checked(Todos)
            A == load_archive(archive_file)
        IN  /\ C # <<>>
            /\ Len(A) >= Len(C)
            /\ SubSeq(A, Len(A) - Len(C) + 1, Len(A)) = C

C9_Again ==
    last.out = "Killed" /\ last'.cmd = "archive" =>
        /\ last'.out = "Appending"
        /\ load_archive(archive_file')
              = load_archive(archive_file) \o Checked(Todos)

\* C9: when archive dies after its append and before save_todos, the
\* checked todos are both at the end of ARCHIVE_FILE and still in
\* TODO_FILE, and the next archive appends them once more.
C9_NotAtomic == [](C9_Killed) /\ [][C9_Again]_vars

C9_Witness ==
    /\ last.out = "Killed"
    /\ Len(Checked(Todos)) = 1
    /\ Len(archive_file.lines) = 1
    /\ Unchecked(Todos) # <<>>

\* What the command of an invocation alone adds to the number of unchecked
\* and of checked todos.
GainUnchecked(r) == IF r.cmd = "add" THEN 1 ELSE 0 - 1

GainChecked(r) == IF r.cmd = "add" THEN 0 ELSE 1

\* C10: when two commands have both loaded TODO_FILE before either saved,
\* the second save leaves the store its own command alone makes of what
\* was loaded: the change of the first is lost.
C10_LostUpdate ==
    [][\A p, q \in Procs :
          ( /\ p # q
            /\ proc[q].pc = "done"
            /\ proc[p].pc = "loaded"
            /\ proc[p].seen = proc[q].seen
            /\ proc'[p].pc = "done" )
          => LET new == load_todos(todo_file')
             IN  /\ Len(Unchecked(new))
                       = Len(Unchecked(proc[p].seen)) + GainUnchecked(proc[p])
                 /\ Len(Checked(new))
                       = Len(Checked(proc[p].seen)) + GainChecked(proc[p])]_vars

C10_Witness ==
    /\ \A p \in Procs : proc[p].pc = "done" /\ proc[p].cmd = "add"
                        /\ proc[p].seen = <<>>
    /\ proc[1].item # proc[2].item
    /\ Len(Todos) = 1

====
